---- MODULE Spec2Model ----
(***************************************************************************)
(* A model of the tg_cnc_app backend: the Flask application (src/app.py),  *)
(* the JSON-file helpers (src/api/admin.py, src/api/gpt_materials.py), the *)
(* cutting-mode calculator (src/api/calc_modes.py) and the Telegram bot    *)
(* (src/bot.py).                                                           *)
(*                                                                         *)
(* Python strings that the code inspects character by character (ids,     *)
(* material names, message texts) are sequences of one-character strings.  *)
(* Python ints used as ids are arbitrary-precision: they are records       *)
(* [neg, mag] with mag the decimal digits without leading zeros.           *)
(***************************************************************************)
EXTENDS Integers, Sequences, FiniteSets, TLC

VARIABLES
    usersFile,      \* db/users.json
    historyFile,    \* db/history.json
    materialsFile,  \* db/materials.json
    session,        \* per browser session: the admin_authenticated flag
    clock,          \* dt.datetime.utcnow(), as a logical clock
    resp,           \* the response of the request being answered ("idle": none)
    calcIn,         \* arguments of a direct call of calculate_cutting_modes
    calcOut,        \* its outcome
    threads         \* the calls of the file helpers that run concurrently

vars == <<usersFile, historyFile, materialsFile, session, clock, resp, calcIn, calcOut, threads>>

(***************************************************************************)
(* Bounds of the model.                                                    *)
(***************************************************************************)
MaxUsers == 3
MaxHistory == 2
MaxWords == 2

(***************************************************************************)
(* Python string and int conversions.                                      *)
(***************************************************************************)
DigitChars == {"0", "1", "2", "3", "4", "5", "6", "7", "8", "9"}

\* A Python str is a sequence of one-character strings. The operations on
\* strings are functions, so that an argument is a value when it is used.
Str == Seq(STRING)

LStrip[s \in Str] == IF s # <<>> /\ Head(s) = " " THEN LStrip[Tail(s)] ELSE s

RStrip[s \in Str] ==
    IF s # <<>> /\ s[Len(s)] = " " THEN RStrip[SubSeq(s, 1, Len(s) - 1)] ELSE s

\* str.strip()
PyStrip[s \in Str] == RStrip[LStrip[s]]

UpperChars == <<"A", "B", "C", "D", "E", "F", "G", "H", "I", "J", "K", "L", "M",
                "N", "O", "P", "Q", "R", "S", "T", "U", "V", "W", "X", "Y", "Z">>
LowerChars == <<"a", "b", "c", "d", "e", "f", "g", "h", "i", "j", "k", "l", "m",
                "n", "o", "p", "q", "r", "s", "t", "u", "v", "w", "x", "y", "z">>

LowerOf == [c \in {UpperChars[i] : i \in 1..26} |->
               LowerChars[CHOOSE i \in 1..26 : UpperChars[i] = c]]
UpperOf == [c \in {LowerChars[i] : i \in 1..26} |->
               UpperChars[CHOOSE i \in 1..26 : LowerChars[i] = c]]

LowerChar[c \in STRING] == IF c \in DOMAIN LowerOf THEN LowerOf[c] ELSE c

\* str.lower()
PyLower[s \in Str] == [i \in 1..Len(s) |-> LowerChar[s[i]]]

StripZeros[d \in Str] == IF Len(d) > 1 /\ Head(d) = "0" THEN StripZeros[Tail(d)] ELSE d

AllDigits[d \in Str] == d # <<>> /\ \A i \in 1..Len(d) : d[i] \in DigitChars

IntZero == [neg |-> FALSE, mag |-> <<"0">>]

\* int(s) for a str s: surrounding whitespace and an optional sign are accepted,
\* leading zeros are dropped; anything else raises ValueError.
PyIntOfStr(s) ==
    LET t == PyStrip[s]
        signed == t # <<>> /\ Head(t) \in {"+", "-"}
        body == IF signed THEN Tail(t) ELSE t
        mag == StripZeros[body]
    IN IF AllDigits[body]
       THEN [ok |-> TRUE, err |-> "",
             val |-> [neg |-> signed /\ Head(t) = "-" /\ mag # <<"0">>, mag |-> mag]]
       ELSE [ok |-> FALSE, err |-> "ValueError", val |-> IntZero]

\* str(i) for an int i
PyStr(i) == (IF i.neg THEN <<"-">> ELSE <<>>) \o i.mag

(***************************************************************************)
(* JSON values of a request field that the code converts or tests.         *)
(***************************************************************************)
JMissing == [t |-> "missing", i |-> IntZero, s |-> <<>>]
JNull == [t |-> "null", i |-> IntZero, s |-> <<>>]
JInt(mag) == [t |-> "int", i |-> [neg |-> FALSE, mag |-> mag], s |-> <<>>]
JStr(s) == [t |-> "str", i |-> IntZero, s |-> s]

\* dict.get(key): a missing key reads as None
JGet(v) == IF v.t = "missing" THEN JNull ELSE v

\* Python truthiness: None, 0 and "" are false
Truthy(v) ==
    CASE v.t = "int" -> v.i.mag # <<"0">>
      [] v.t = "str" -> v.s # <<>>
      [] OTHER -> FALSE

\* int(v): TypeError on None, ValueError on a str that is no integer literal
PyInt(v) ==
    CASE v.t = "int" -> [ok |-> TRUE, err |-> "", val |-> v.i]
      [] v.t = "str" -> PyIntOfStr(v.s)
      [] OTHER -> [ok |-> FALSE, err |-> "TypeError", val |-> IntZero]

(***************************************************************************)
(* The data files. A file is absent, holds malformed JSON, or holds a JSON *)
(* value: a list, a dict or a scalar.                                      *)
(***************************************************************************)
EmptyDict == [k \in {} |-> 0]
AbsentFile == [kind |-> "absent", list |-> <<>>, dict |-> EmptyDict]
MalformedFile == [kind |-> "malformed", list |-> <<>>, dict |-> EmptyDict]
ScalarFile == [kind |-> "scalar", list |-> <<>>, dict |-> EmptyDict]
ListFile(l) == [kind |-> "list", list |-> l, dict |-> EmptyDict]
DictFile(d) == [kind |-> "dict", list |-> <<>>, dict |-> d]

\* api.admin._load_json(path, default)
load_json(file, default) ==
    IF file.kind = "absent" THEN default
    ELSE IF file.kind = "malformed" THEN default
    ELSE file

\* api.admin._save_json on a list payload
save_json(payload) == ListFile(payload)

DEFAULT_NAME == "Bez imeni"
USER_EXISTS == "Polzovatel uzhe sushchestvuet"

\* get_users without the fall-back to the empty list: anything that is no list
\* is handed on as one entry
get_users_unvalidated(file) ==
    IF file.kind = "list" THEN file.list ELSE <<[id |-> <<>>, name |-> file.kind]>>

\* api.admin.get_users
get_users(file) ==
    LET data == load_json(file, ListFile(<<>>))
    IN IF data.kind = "list" THEN data.list ELSE <<>>

save_users(users) == save_json(users)

\* add_user without its test for an entry of the same id
add_user_unchecked(file, user_id, full_name) ==
    [raised |-> FALSE, err |-> "",
     file |-> save_users(Append(get_users(file),
                                [id |-> PyStr(user_id), name |-> full_name])),
     entry |-> [id |-> PyStr(user_id), name |-> full_name]]

\* api.admin.add_user: the outcome and the file as it leaves it
add_user(file, user_id, full_name) ==
    LET users == get_users(file)
    IN IF \E k \in 1..Len(users) : users[k].id = PyStr(user_id)
       THEN [raised |-> TRUE, err |-> USER_EXISTS, file |-> file,
             entry |-> [id |-> <<>>, name |-> ""]]
       ELSE LET entry == [id |-> PyStr(user_id),
                          name |-> IF full_name = "" THEN DEFAULT_NAME ELSE full_name]
            IN [raised |-> FALSE, err |-> "", file |-> save_users(Append(users, entry)),
                entry |-> entry]

\* delete_user that removes the first entry of the id only, as list.remove does
delete_user_first(file, user_id) ==
    LET users == get_users(file)
        hits == {k \in 1..Len(users) : users[k].id = PyStr(user_id)}
    IN save_users(IF hits = {} THEN users
                  ELSE [k \in 1..(Len(users) - 1) |->
                           IF \A h \in hits : k < h THEN users[k] ELSE users[k + 1]])

\* api.admin.delete_user
delete_user(file, user_id) ==
    LET users == get_users(file)
        filtered == SelectSeq(users, LAMBDA u : u.id # PyStr(user_id))
    IN save_users(filtered)

\* is_user_authorised without the look-up
is_user_authorised_open(file, user_id) == TRUE

\* api.admin.is_user_authorised
is_user_authorised(file, user_id) ==
    LET users == get_users(file)
    IN \E k \in 1..Len(users) : users[k].id = PyStr(user_id)

(***************************************************************************)
(* Numbers of the calculator. A float is an exact rational in a fixed      *)
(* unit: machinability in 1/100, diameter in 1/10 mm, vc in 1/40000 m/min, *)
(* fz in 1/1000000 mm. Products that do not fit 32 bits are computed on    *)
(* little-endian sequences of base-10000 limbs. Binary floating point is   *)
(* bracketed: math.pi lies between two rationals, and a value that is an   *)
(* exact decimal tie may round either way, so every result is computed     *)
(* twice, as a lower and an upper bracket of what the code returns.        *)
(* Non-finite floats (nan, inf) are outside the input domain.              *)
(***************************************************************************)
LimbBase == 100 * 100

Limbs == Seq(Nat)

\* The operations are functions, so that an argument is a value when it is used.
ToBig[n \in Nat] == IF n = 0 THEN <<>> ELSE <<n % LimbBase>> \o ToBig[n \div LimbBase]

BigToInt[x \in Limbs] == IF x = <<>> THEN 0 ELSE Head(x) + LimbBase * BigToInt[Tail(x)]

\* x * s + carry for 0 <= s < LimbBase
BigMulStep[x \in Limbs, s \in Nat, carry \in Nat] ==
    IF x = <<>>
    THEN (IF carry = 0 THEN <<>> ELSE <<carry>>)
    ELSE <<(Head(x) * s + carry) % LimbBase>>
         \o BigMulStep[Tail(x), s, (Head(x) * s + carry) \div LimbBase]

BigAddStep[x \in Limbs, y \in Limbs, carry \in Nat] ==
    IF x = <<>> /\ y = <<>>
    THEN (IF carry = 0 THEN <<>> ELSE <<carry>>)
    ELSE LET a == IF x = <<>> THEN 0 ELSE Head(x)
             b == IF y = <<>> THEN 0 ELSE Head(y)
         IN <<(a + b + carry) % LimbBase>>
            \o BigAddStep[IF x = <<>> THEN <<>> ELSE Tail(x),
                          IF y = <<>> THEN <<>> ELSE Tail(y),
                          (a + b + carry) \div LimbBase]

BigMul[x \in Limbs, y \in Limbs] ==
    IF y = <<>> THEN <<>>
    ELSE BigAddStep[BigMulStep[x, Head(y), 0], <<0>> \o BigMul[x, Tail(y)], 0]

\* x * n for a natural n
BigTimes(x, n) == BigMul[x, ToBig[n]]

\* One step of the long division: hi is the result for the higher limbs
DivResults == [q : Limbs, r : Nat]

BigDivLimb[hi \in DivResults, h \in Nat, s \in Nat] ==
    [q |-> <<(hi.r * LimbBase + h) \div s>> \o hi.q, r |-> (hi.r * LimbBase + h) % s]

BigDivStep[x \in Limbs, s \in Nat] ==
    IF x = <<>> THEN [q |-> <<>>, r |-> 0]
    ELSE BigDivLimb[BigDivStep[Tail(x), s], Head(x), s]

\* floor(x / s) for 0 < s < 200000
BigDiv(x, s) == BigDivStep[x, s].q

MaxOf(a, b) == IF a >= b THEN a ELSE b

\* round(a / b) to the nearest integer, for b > 0. At an exact decimal tie the
\* binary float falls on either side: tie_up says which.
RoundDiv(a, b, tie_up) ==
    LET q == a \div b
        r == a % b
    IN IF 2 * r < b THEN q
       ELSE IF 2 * r > b THEN q + 1
       ELSE IF tie_up THEN q + 1 ELSE q

\* The brackets: math.pi < 355/113 with ties rounded down gives the lower results,
\* 103993/33102 < math.pi with ties rounded up the upper ones.
Lower == [num |-> 355, den |-> 113, tie_up |-> FALSE]
Upper == [num |-> 103993, den |-> 33102, tie_up |-> TRUE]

DigitVal == [c \in DigitChars |->
                CHOOSE v \in 0..9 : <<"0", "1", "2", "3", "4", "5", "6", "7", "8", "9">>[v + 1] = c]

DigitsVal[d \in Str] ==
    IF d = <<>> THEN 0 ELSE DigitsVal[SubSeq(d, 1, Len(d) - 1)] * 10 + DigitVal[d[Len(d)]]

\* float(s) for a str s, in 1/100: a decimal literal with at most two decimals,
\* ValueError for anything that is no number. The literal is taken apart in steps:
\* the integer part ip, the fraction fp and the number of points,
FloatOfParts(ip, fp, points) ==
    IF /\ points <= 1
       /\ Len(ip) + Len(fp) > 0
       /\ Len(fp) <= 2
       /\ \A i \in 1..Len(ip) : ip[i] \in DigitChars
       /\ \A i \in 1..Len(fp) : fp[i] \in DigitChars
    THEN [ok |-> TRUE, err |-> "",
          val |-> 100 * DigitsVal[ip] + (IF Len(fp) = 1 THEN 10 ELSE 1) * DigitsVal[fp]]
    ELSE [ok |-> FALSE, err |-> "ValueError", val |-> 0]

\* the unsigned literal split at its first point,
FloatOfBody(body, dots, dot) ==
    FloatOfParts(SubSeq(body, 1, dot - 1), SubSeq(body, dot + 1, Len(body)),
                 Cardinality(dots))

FloatOfDots(body, dots) ==
    FloatOfBody(body, dots, IF dots = {} THEN Len(body) + 1 ELSE CHOOSE i \in dots : TRUE)

FloatOfUnsigned(body) == FloatOfDots(body, {i \in 1..Len(body) : body[i] = "."})

WithSign(f, negative) == IF f.ok /\ negative THEN [f EXCEPT !.val = -f.val] ELSE f

\* the sign,
FloatOfStripped(t) ==
    IF t # <<>> /\ Head(t) \in {"+", "-"}
    THEN WithSign(FloatOfUnsigned(Tail(t)), Head(t) = "-")
    ELSE FloatOfUnsigned(t)

\* and the surrounding whitespace.
PyFloatOfStr(s) == FloatOfStripped(PyStrip[s])

\* A JSON value of material_props["machinability_index"]
FMissing == [t |-> "missing", x |-> 0, s |-> <<>>]
FNull == [t |-> "null", x |-> 0, s |-> <<>>]
FNum(x100) == [t |-> "num", x |-> x100, s |-> <<>>]
FStr(s) == [t |-> "str", x |-> 0, s |-> s]

\* float(v): TypeError on None, ValueError on a str that is no number
PyFloat(v) ==
    CASE v.t = "num" -> [ok |-> TRUE, err |-> "", val |-> v.x]
      [] v.t = "str" -> PyFloatOfStr(v.s)
      [] OTHER -> [ok |-> FALSE, err |-> "TypeError", val |-> 0]

\* sub in s
Contains[sub \in Str, s \in Str] ==
    \E i \in 0..(Len(s) - Len(sub)) : SubSeq(s, i + 1, i + Len(sub)) = sub

\* The Russian words of the source, transliterated.
VYS == <<"v", "y", "s">>
NIZ == <<"n", "i", "z">>
SREDNIJ == <<"s", "r", "e", "d", "n", "i", "j">>
SREDNYAYA == <<"s", "r", "e", "d", "n", "y", "a", "y", "a">>
VYSOKIJ == <<"v", "y", "s", "o", "k", "i", "j">>
VYSOKAYA == <<"v", "y", "s", "o", "k", "a", "y", "a">>
NIZKIJ == <<"n", "i", "z", "k", "i", "j">>
NIZKAYA == <<"n", "i", "z", "k", "a", "y", "a">>

DRILL == <<"d", "r", "i", "l", "l">>
MILL == <<"m", "i", "l", "l">>
HSS == <<"h", "s", "s">>
CARBIDE == <<"c", "a", "r", "b", "i", "d", "e">>

\* material_props.get(key, default) followed by str(): a missing key gives the
\* default, a null value the text "None"
StrOfProp(v, default) ==
    CASE v.t = "missing" -> default
      [] v.t = "null" -> <<"N", "o", "n", "e">>
      [] OTHER -> v.s

\* material_props.get("machinability_index", 0.6)
MachinabilityOf(props) ==
    IF props.machinability_index.t = "missing" THEN FNum(60) ELSE props.machinability_index

VC_FLOOR == 8
\* 1/100 (machinability) * 1/20 (multiplier) * 1/20 (hardness_penalty)
VcUnit == 100 * 20 * 20

\* hardness_penalty in 1/20, from the lower-cased texts
HardnessPenalty(temperature_risk, work_hardening) ==
    (IF Contains[VYS, temperature_risk] THEN 20 - 5
     ELSE IF Contains[NIZ, temperature_risk] THEN 20 + 2
     ELSE 20)
    + (IF Contains[VYS, work_hardening] THEN -2
       ELSE IF Contains[NIZ, work_hardening] THEN 1
       ELSE 0)

\* base * multiplier, the multiplier in 1/20; lowered is tool_material.lower()
BaseTimesMultiplier(tool_type, lowered) ==
    IF lowered = HSS THEN 40 * (IF tool_type = DRILL THEN 22 ELSE 20)
    ELSE IF lowered = CARBIDE THEN 140 * (IF tool_type = MILL THEN 26 ELSE 24)
    ELSE 110 * (IF tool_type = MILL THEN 25 ELSE 20)

\* vc = base * machinability * multiplier * hardness_penalty; max(vc, 8.0)
VcOf(machinability, base_multiplier, hardness_penalty) ==
    IF ~machinability.ok
    THEN [raised |-> TRUE, err |-> machinability.err, val |-> 0]
    ELSE [raised |-> FALSE, err |-> "",
          val |-> MaxOf(base_multiplier * machinability.val * hardness_penalty,
                        VC_FLOOR * VcUnit)]

\* api.calc_modes._select_vc, in 1/40000 m/min
select_vc(tool_type, tool_material, material_props) ==
    VcOf(PyFloat(MachinabilityOf(material_props)),
         BaseTimesMultiplier(tool_type, PyLower[tool_material]),
         HardnessPenalty(PyLower[StrOfProp(material_props.temperature_risk, SREDNIJ)],
                         PyLower[StrOfProp(material_props.work_hardening, SREDNYAYA)]))

FZ_FLOOR_DRILL == 40000
FZ_FLOOR_OTHER == 20000

\* tool_factor without the case of carbide
ToolFactorPlain(lowered) == IF lowered = HSS THEN 9 ELSE 10

\* tool_factor in 1/10; lowered is tool_material.lower()
ToolFactor(lowered) == IF lowered = CARBIDE THEN 12 ELSE IF lowered = HSS THEN 9 ELSE 10

FzOf(machinability, tool_type, tool_factor, diameter) ==
    IF ~machinability.ok
    THEN [raised |-> TRUE, err |-> machinability.err, val |-> 0]
    ELSE IF tool_type = DRILL
    THEN [raised |-> FALSE, err |-> "",
          val |-> MaxOf((IF diameter > 100 THEN 12 ELSE 8) * machinability.val * 100,
                        FZ_FLOOR_DRILL)]
    ELSE [raised |-> FALSE, err |-> "",
          val |-> MaxOf((45 + diameter) * machinability.val * tool_factor, FZ_FLOOR_OTHER)]

\* api.calc_modes._select_fz, in 1/1000000 mm; diameter in 1/10 mm
select_fz(tool_type, tool_material, material_props, diameter) ==
    FzOf(PyFloat(MachinabilityOf(material_props)), tool_type,
         ToolFactor(PyLower[tool_material]), diameter)

NoCalc == [vc |-> 0, n |-> 0, fz |-> 0, feed |-> 0, ap |-> 0, ae |-> 0]

\* floor(x / (pi * diameter * k)) for a bignum x; 0 when diameter <= 0
OverPiD(x, pi, diameter, k) ==
    IF diameter <= 0 THEN 0
    ELSE BigToInt[BigDiv(BigDiv(BigDiv(x, pi.num), diameter), k)]

\* round(n, 0) without the floor 1.0
SpindleUnfloored(nFloor, nTwice) == (nTwice + 1) \div 2

\* n = max(n, 1.0), rounded: nFloor is floor(n), nTwice floor(2 * n)
SpindleOf(nFloor, nTwice) == IF nFloor < 1 THEN 1 ELSE (nTwice + 1) \div 2

\* feed = fz * total_teeth * n from the unrounded fz and n, in 1/10:
\* feedTwice is floor(20 * feed) when n is above its floor 1.0
FeedOf(nFloor, feedTwice, fz, total_teeth, pi) ==
    IF nFloor < 1 THEN RoundDiv(fz * total_teeth, 100000, pi.tie_up)
    ELSE (feedTwice + 1) \div 2

\* the returned dict; nNum / (4 * pi.num * diameter) is n
ModesOf(tool_type, vc, fz, nNum, diameter, total_teeth, pi) ==
    [vc |-> RoundDiv(vc, 400, pi.tie_up),
     n |-> SpindleOf(OverPiD(nNum, pi, diameter, 4), OverPiD(nNum, pi, diameter, 2)),
     fz |-> RoundDiv(fz, 100, pi.tie_up),
     feed |-> FeedOf(OverPiD(nNum, pi, diameter, 4),
                     OverPiD(BigDiv(BigTimes(BigTimes(nNum, fz), total_teeth * 5), 1000),
                             pi, diameter, 1000),
                     fz, total_teeth, pi),
     ap |-> IF tool_type = DRILL THEN diameter * 20 ELSE MaxOf(diameter * 2, 50),
     ae |-> IF tool_type = DRILL THEN RoundDiv(diameter * 95, 10, pi.tie_up)
            ELSE MaxOf(diameter * 6, 50)]

\* the body of calculate_cutting_modes after the two selections
ModesFrom(tool_type, vc, fz, diameter, teeth, pi) ==
    IF vc.raised THEN [raised |-> TRUE, err |-> vc.err, out |-> NoCalc]
    ELSE IF fz.raised THEN [raised |-> TRUE, err |-> fz.err, out |-> NoCalc]
    ELSE [raised |-> FALSE, err |-> "",
          out |-> ModesOf(tool_type, vc.val, fz.val, BigTimes(ToBig[vc.val], pi.den),
                          diameter,
                          IF teeth > 0 THEN teeth ELSE (IF tool_type = DRILL THEN 2 ELSE 4),
                          pi)]

Lowered(tool_type, tool_material, material_props, diameter, teeth, pi) ==
    ModesFrom(tool_type, select_vc(tool_type, tool_material, material_props),
              select_fz(tool_type, tool_material, material_props, diameter),
              diameter, teeth, pi)

\* api.calc_modes.calculate_cutting_modes with math.pi taken as pi.num / pi.den
\* and ties rounded as pi.tie_up says.
\* The result holds vc in 1/100, n in 1, fz in 1/10000, feed in 1/10, ap and ae
\* in 1/100, as the code rounds them.
calculate_cutting_modes(tool_type, tool_material, material_props, diameter, teeth, pi) ==
    Lowered(PyLower[tool_type], PyLower[tool_material], material_props, diameter, teeth, pi)

(***************************************************************************)
(* Direct calls of calculate_cutting_modes: the arguments are drawn from   *)
(* bounded sets and the function is applied once.                          *)
(***************************************************************************)
ToolTypes == {DRILL, MILL, <<"M", "i", "l", "l">>, <<"t", "a", "p">>}
ToolMaterials == {HSS, CARBIDE, <<"C", "a", "r", "b", "i", "d", "e">>,
                  <<"p", "l", "a", "t", "e">>}
Machinabilities == {FMissing, FNull, FNum(-50), FNum(0), FNum(35), FNum(60), FNum(100),
                    FStr(<<"0", ".", "8", "5">>), FStr(<<"a", "b", "c">>)}
TemperatureRisks == {FMissing, FStr(VYSOKIJ),
                     FStr(<<"N", "i", "z", "k", "i", "j">>)}
WorkHardenings == {FMissing, FNull, FStr(VYSOKAYA), FStr(NIZKAYA)}
\* diameters in 1/10 mm: negative, zero, 0.5 mm, 6 mm, 10 mm, 12 mm, 10 m
Diameters == {-500, 0, 5, 60, 100, 120, 100000}
TeethCounts == {-1, 0, 2, 4}

CalcInputs ==
    [tool_type : ToolTypes, tool_material : ToolMaterials,
     props : [machinability_index : Machinabilities,
              temperature_risk : TemperatureRisks,
              work_hardening : WorkHardenings],
     diameter : Diameters, teeth : TeethCounts]

NotCalled ==
    [called |-> FALSE, lo |-> [raised |-> FALSE, err |-> "", out |-> NoCalc],
     hi |-> [raised |-> FALSE, err |-> "", out |-> NoCalc]]

IdleCalcIn ==
    [tool_type |-> MILL, tool_material |-> HSS,
     props |-> [machinability_index |-> FMissing, temperature_risk |-> FMissing,
                work_hardening |-> FMissing],
     diameter |-> 0, teeth |-> 0]

\* lo and hi bracket what the code returns
CalcOutcome(in, pi) ==
    calculate_cutting_modes(in.tool_type, in.tool_material, in.props, in.diameter,
                            in.teeth, pi)

Calculate ==
    /\ ~calcOut.called
    /\ calcOut' = [called |-> TRUE, lo |-> CalcOutcome(calcIn, Lower),
                   hi |-> CalcOutcome(calcIn, Upper)]
    /\ UNCHANGED <<usersFile, historyFile, materialsFile, session, clock, resp, calcIn, threads>>

(***************************************************************************)
(* The material cache (api/gpt_materials.py).                              *)
(***************************************************************************)
ALU == <<"a", "l", "u">>
TITAN == <<"t", "i", "t", "a", "n">>

IsLetter[c \in STRING] == c \in DOMAIN LowerOf \/ c \in DOMAIN UpperOf

UpperChar[c \in STRING] == IF c \in DOMAIN UpperOf THEN UpperOf[c] ELSE c

\* str.title(): a letter that follows a non-letter is upper-cased, the others lower-cased
PyTitle[s \in Str] ==
    [i \in 1..Len(s) |-> IF i = 1 \/ ~IsLetter[s[i - 1]] THEN UpperChar[s[i]]
                         ELSE LowerChar[s[i]]]

NoProps == [name |-> <<>>, machinability_index |-> 0, temperature_risk |-> <<>>,
            work_hardening |-> <<>>]

\* api.gpt_materials._load_json(path)
load_json_materials(file) ==
    IF file.kind = "absent" THEN DictFile(EmptyDict)
    ELSE IF file.kind = "malformed" THEN DictFile(EmptyDict)
    ELSE file

\* api.gpt_materials.load_materials
load_materials(file) ==
    LET data == load_json_materials(file)
    IN IF data.kind # "dict" THEN EmptyDict ELSE data.dict

\* materials[key] = properties
DictPut(d, key, value) ==
    [k \in DOMAIN d \cup {key} |-> IF k = key THEN value ELSE d[k]]

\* save_material with the name as the key, neither trimmed nor lower-cased
save_material_exact(file, name, properties) ==
    DictFile(DictPut(load_materials(file), name, properties))

\* save_material that writes the new entry without loading the cache
save_material_alone(file, name, properties) ==
    DictFile(DictPut(EmptyDict, PyLower[PyStrip[name]], properties))

\* api.gpt_materials.save_material: the file as it leaves it
save_material(file, name, properties) ==
    LET materials == load_materials(file)
        key == PyLower[PyStrip[name]]
    IN DictFile(DictPut(materials, key, properties))

\* api.gpt_materials._fallback_material
fallback_material(material_name) ==
    LET name == PyStrip[material_name]
        lowered == PyLower[name]
    IN IF Contains[ALU, lowered]
       THEN [name |-> PyTitle[name], machinability_index |-> 85,
             temperature_risk |-> NIZKIJ, work_hardening |-> NIZKAYA]
       ELSE IF Contains[TITAN, lowered]
       THEN [name |-> PyTitle[name], machinability_index |-> 35,
             temperature_risk |-> VYSOKIJ, work_hardening |-> VYSOKAYA]
       ELSE [name |-> PyTitle[name], machinability_index |-> 60,
             temperature_risk |-> SREDNIJ, work_hardening |-> SREDNYAYA]

\* A JSON object the language model may answer with.
ModelAnswer(material_name) ==
    [name |-> material_name, machinability_index |-> 70,
     temperature_risk |-> SREDNIJ, work_hardening |-> VYSOKAYA]

\* api.gpt_materials.analyse_with_gpt: every outcome of one call. Without an API
\* key, or when the answer is no JSON, the fallback; otherwise the parsed answer;
\* the client call may raise.
analyse_with_gpt(material_name) ==
    {[raised |-> FALSE, props |-> fallback_material(material_name)],
     [raised |-> FALSE, props |-> ModelAnswer(material_name)],
     [raised |-> TRUE, props |-> NoProps]}

\* api.gpt_materials.analyse_material: every outcome of one call, each with the
\* file as the call leaves it and whether analyse_with_gpt was invoked
analyse_material(file, material_name) ==
    LET materials == load_materials(file)
        key == PyLower[PyStrip[material_name]]
    IN IF key \in DOMAIN materials
       THEN {[raised |-> FALSE, props |-> materials[key], invoked |-> FALSE, file |-> file]}
       ELSE {[raised |-> o.raised, props |-> o.props, invoked |-> TRUE,
              file |-> IF o.raised THEN file ELSE save_material(file, material_name, o.props)]
             : o \in analyse_with_gpt(material_name)}

(***************************************************************************)
(* The calculation history (api/admin.py).                                 *)
(***************************************************************************)
\* append_history that writes the new entry alone
append_history_overwrite(file, entry) == save_json(<<entry>>)

\* api.admin.append_history: the file as it leaves it
append_history(file, entry) ==
    LET loaded == load_json(file, ListFile(<<>>))
        history == IF loaded.kind # "list" THEN <<>> ELSE loaded.list
    IN save_json(Append(history, entry))

\* api.admin.get_history
get_history(file) ==
    LET history == load_json(file, ListFile(<<>>))
    IN IF history.kind = "list" THEN history.list ELSE <<>>

\* os.environ.get("ADMIN_PASSWORD", "admin123"): the variable is unset
ADMIN_PASSWORD_ENV == "unset"
DEFAULT_ADMIN_PASSWORD == "admin123"

\* verify_admin_password that accepts every password
verify_any_password(password) == TRUE

\* api.admin.verify_admin_password
verify_admin_password(password) ==
    LET expected == IF ADMIN_PASSWORD_ENV = "unset" THEN DEFAULT_ADMIN_PASSWORD
                    ELSE ADMIN_PASSWORD_ENV
    IN password = expected

(***************************************************************************)
(* The HTTP handlers (app.py). A handler runs from the idle server to its  *)
(* response; resp then holds the request, the response and what the        *)
(* handler did, until the response is sent.                                *)
(***************************************************************************)
Clients == {"c1"}

NoResp ==
    [op |-> "idle", client |-> "", status |-> 0,
     \* the request
     uid |-> JMissing, material |-> JMissing, absent |-> {}, path |-> <<>>,
     password |-> "",
     update |-> [user |-> [present |-> FALSE, id |-> IntZero], has_message |-> FALSE,
                 text |-> <<>>],
     \* whether the allow-list held the request's user_id when the request arrived
     listed |-> FALSE,
     \* the response
     err |-> "", missing |-> <<>>,
     \* the words of the message of a 400 response
     message |-> <<>>,
     props |-> NoProps, materials |-> {}, users |-> <<>>, history |-> <<>>,
     calc |-> NoCalc, entry |-> [id |-> <<>>, name |-> ""], replies |-> <<>>,
     \* what the handler called
     analysed_material |-> FALSE, asked_gpt |-> FALSE, calculated |-> FALSE,
     \* the ids the bot passed to add_user, in the order of the calls
     passed |-> <<>>]

\* The stored allow-list holds the id that user_id converts to.
Listed(file, uid) ==
    /\ PyInt(JGet(uid)).ok
    /\ file.kind = "list"
    /\ \E k \in 1..Len(file.list) : file.list[k].id = PyStr(PyInt(JGet(uid)).val)

FORBIDDEN == "Dostup zapreshchen"

\* POST /api/check_access
check_access(uid) ==
    /\ resp.op = "idle"
    /\ LET user_id == JGet(uid)
           r == [NoResp EXCEPT !.op = "check_access", !.uid = uid,
                               !.listed = Listed(usersFile, uid)]
       IN resp' = IF ~Truthy(user_id)
                  THEN [r EXCEPT !.status = 400, !.err = "user_id otsutstvuet",
                                  !.message = <<"user_id", "otsutstvuet">>]
                  ELSE IF ~PyInt(user_id).ok
                  THEN [r EXCEPT !.status = 500, !.err = PyInt(user_id).err]
                  ELSE IF ~is_user_authorised(usersFile, PyInt(user_id).val)
                  THEN [r EXCEPT !.status = 403, !.err = FORBIDDEN]
                  ELSE [r EXCEPT !.status = 200]
    /\ UNCHANGED <<usersFile, historyFile, materialsFile, session, clock, calcIn, calcOut, threads>>

\* GET /api/materials
list_materials ==
    /\ resp.op = "idle"
    /\ LET materials == load_materials(materialsFile)
       IN resp' = [NoResp EXCEPT !.op = "list_materials", !.status = 200,
                                 !.materials = {materials[k] : k \in DOMAIN materials}]
    /\ UNCHANGED <<usersFile, historyFile, materialsFile, session, clock, calcIn, calcOut, threads>>

\* POST /api/materials/analyze
analyze_material(uid, material) ==
    /\ resp.op = "idle"
    /\ LET user_id == JGet(uid)
           material_name == JGet(material)
           r == [NoResp EXCEPT !.op = "analyze_material", !.uid = uid,
                               !.material = material,
                               !.listed = Listed(usersFile, uid)]
       IN IF ~Truthy(user_id) \/ ~Truthy(material_name)
          THEN /\ resp' = [r EXCEPT !.status = 400, !.err = "Nedostatochno dannyh",
                                    !.message = <<"Nedostatochno", "dannyh">>]
               /\ UNCHANGED materialsFile
          ELSE IF ~PyInt(user_id).ok
          THEN /\ resp' = [r EXCEPT !.status = 500, !.err = PyInt(user_id).err]
               /\ UNCHANGED materialsFile
          ELSE IF ~is_user_authorised(usersFile, PyInt(user_id).val)
          THEN /\ resp' = [r EXCEPT !.status = 403, !.err = FORBIDDEN]
               /\ UNCHANGED materialsFile
          ELSE \E o \in analyse_material(materialsFile, material_name.s) :
                  /\ resp' = [r EXCEPT !.status = IF o.raised THEN 500 ELSE 200,
                                       !.props = o.props,
                                       !.analysed_material = TRUE,
                                       !.asked_gpt = o.invoked]
                  /\ materialsFile' = o.file
    /\ UNCHANGED <<usersFile, historyFile, session, clock, calcIn, calcOut, threads>>

required_fields == <<"user_id", "tool_type", "tool_material", "diameter", "teeth",
                     "material_properties">>

\* f in payload, looked up for user_id alone
InPayloadUserOnly(payload, f) == f = "user_id" => payload.user_id.t # "missing"

\* f in payload
InPayload(payload, f) ==
    IF f = "user_id" THEN payload.user_id.t # "missing" ELSE f \notin payload.absent

\* app._build_recommendations: list(material_props.get("notes", [])) raises
\* TypeError when notes is null; nothing else of it is modelled
build_recommendations(material_props) ==
    IF material_props.notes = "null"
    THEN [raised |-> TRUE, err |-> "TypeError"]
    ELSE [raised |-> FALSE, err |-> ""]

\* POST /api/calc
calc_modes(payload) ==
    /\ resp.op = "idle"
    /\ LET missing == SelectSeq(required_fields, LAMBDA f : ~InPayload(payload, f))
           user_id == PyInt(payload.user_id)
           material_props == payload.material_properties
           r == [NoResp EXCEPT !.op = "calc_modes", !.uid = payload.user_id,
                               !.absent = payload.absent,
                               !.listed = Listed(usersFile, payload.user_id)]
       IN IF missing # <<>>
          THEN /\ resp' = [r EXCEPT !.status = 400, !.err = "Otsutstvuyut polya",
                                    !.missing = missing,
                                    !.message = <<"Otsutstvuyut", "polya">> \o missing]
               /\ UNCHANGED <<historyFile, clock>>
          ELSE IF ~user_id.ok
          THEN /\ resp' = [r EXCEPT !.status = 500, !.err = user_id.err]
               /\ UNCHANGED <<historyFile, clock>>
          ELSE IF ~is_user_authorised(usersFile, user_id.val)
          THEN /\ resp' = [r EXCEPT !.status = 403, !.err = FORBIDDEN]
               /\ UNCHANGED <<historyFile, clock>>
          ELSE \E pi \in {Lower, Upper} :
                 LET calculations ==
                         calculate_cutting_modes(payload.tool_type, payload.tool_material,
                                                 material_props, payload.diameter,
                                                 payload.teeth, pi)
                     recommendations == build_recommendations(material_props)
                     entry == [timestamp |-> clock,
                               user_id |-> PyStr(user_id.val),
                               tool_type |-> payload.tool_type,
                               tool_material |-> payload.tool_material,
                               diameter |-> payload.diameter,
                               teeth |-> payload.teeth,
                               material |-> material_props.name,
                               vc |-> calculations.out.vc,
                               n |-> calculations.out.n,
                               fz |-> calculations.out.fz,
                               feed |-> calculations.out.feed]
                 IN IF calculations.raised
                    THEN /\ resp' = [r EXCEPT !.status = 500, !.err = calculations.err,
                                              !.calculated = TRUE]
                         /\ UNCHANGED <<historyFile, clock>>
                    ELSE IF recommendations.raised
                    THEN /\ resp' = [r EXCEPT !.status = 500, !.err = recommendations.err,
                                              !.calculated = TRUE,
                                              !.calc = calculations.out]
                         /\ UNCHANGED <<historyFile, clock>>
                    ELSE /\ Len(get_history(historyFile)) < MaxHistory
                         /\ resp' = [r EXCEPT !.status = 200, !.calculated = TRUE,
                                              !.calc = calculations.out]
                         /\ historyFile' = append_history(historyFile, entry)
                         /\ clock' = clock + 1
    /\ UNCHANGED <<usersFile, materialsFile, session, calcIn, calcOut, threads>>

LOGIN_REQUIRED == "Trebuetsya vhod"

\* POST /api/admin/login
admin_login(c, password) ==
    /\ resp.op = "idle"
    /\ LET r == [NoResp EXCEPT !.op = "admin_login", !.client = c, !.password = password]
       IN IF verify_admin_password(password)
          THEN /\ session' = [session EXCEPT ![c] = TRUE]
               /\ resp' = [r EXCEPT !.status = 200]
          ELSE /\ resp' = [r EXCEPT !.status = 403, !.err = "Nevernyj parol"]
               /\ UNCHANGED session
    /\ UNCHANGED <<usersFile, historyFile, materialsFile, clock, calcIn, calcOut, threads>>

\* POST /api/admin/logout
admin_logout(c) ==
    /\ resp.op = "idle"
    /\ session' = [session EXCEPT ![c] = FALSE]
    /\ resp' = [NoResp EXCEPT !.op = "admin_logout", !.client = c, !.status = 200]
    /\ UNCHANGED <<usersFile, historyFile, materialsFile, clock, calcIn, calcOut, threads>>

\* GET /api/admin/users
admin_users(c) ==
    /\ resp.op = "idle"
    /\ LET r == [NoResp EXCEPT !.op = "admin_users", !.client = c]
       IN resp' = IF ~session[c]
                  THEN [r EXCEPT !.status = 401, !.err = LOGIN_REQUIRED]
                  ELSE [r EXCEPT !.status = 200, !.users = get_users(usersFile)]
    /\ UNCHANGED <<usersFile, historyFile, materialsFile, session, clock, calcIn, calcOut, threads>>

\* POST /api/admin/users
admin_add_user(c, uid, name) ==
    /\ resp.op = "idle"
    /\ LET r == [NoResp EXCEPT !.op = "admin_add_user", !.client = c, !.uid = uid,
                               !.listed = Listed(usersFile, uid)]
           user_id == PyInt(JGet(uid))
           added == add_user(usersFile, user_id.val, name)
       IN IF ~session[c]
          THEN /\ resp' = [r EXCEPT !.status = 401, !.err = LOGIN_REQUIRED]
               /\ UNCHANGED usersFile
          ELSE IF ~user_id.ok
          THEN /\ resp' = [r EXCEPT !.status = 400, !.err = user_id.err]
               /\ UNCHANGED usersFile
          ELSE IF added.raised
          THEN /\ resp' = [r EXCEPT !.status = 400, !.err = added.err]
               /\ usersFile' = added.file
          ELSE /\ Len(get_users(usersFile)) < MaxUsers
               /\ resp' = [r EXCEPT !.status = 200, !.entry = added.entry]
               /\ usersFile' = added.file
    /\ UNCHANGED <<historyFile, materialsFile, session, clock, calcIn, calcOut, threads>>

\* DELETE /api/admin/users/<user_id>
admin_delete_user(c, path) ==
    /\ resp.op = "idle"
    /\ LET r == [NoResp EXCEPT !.op = "admin_delete_user", !.client = c, !.path = path,
                               !.listed = Listed(usersFile, JStr(path))]
           user_id == PyIntOfStr(path)
       IN IF ~session[c]
          THEN /\ resp' = [r EXCEPT !.status = 401, !.err = LOGIN_REQUIRED]
               /\ UNCHANGED usersFile
          ELSE IF ~user_id.ok
          THEN /\ resp' = [r EXCEPT !.status = 500, !.err = user_id.err]
               /\ UNCHANGED usersFile
          ELSE /\ resp' = [r EXCEPT !.status = 200]
               /\ usersFile' = delete_user(usersFile, user_id.val)
    /\ UNCHANGED <<historyFile, materialsFile, session, clock, calcIn, calcOut, threads>>

\* GET /api/admin/history
admin_history(c) ==
    /\ resp.op = "idle"
    /\ LET r == [NoResp EXCEPT !.op = "admin_history", !.client = c]
       IN resp' = IF ~session[c]
                  THEN [r EXCEPT !.status = 401, !.err = LOGIN_REQUIRED]
                  ELSE [r EXCEPT !.status = 200, !.history = get_history(historyFile)]
    /\ UNCHANGED <<usersFile, historyFile, materialsFile, session, clock, calcIn, calcOut, threads>>

(***************************************************************************)
(* The Telegram bot (bot.py). It shares the allow-list file with the web   *)
(* application.                                                            *)
(***************************************************************************)
\* The environment variable BOT_ADMIN_IDS: "1111, x9;3333"
BOT_ADMIN_IDS_ENV ==
    <<"1", "1", "1", "1", ",", " ", "x", "9", ";", "3", "3", "3", "3">>

\* bot._load_admin_ids: the chunks between runs of the separators [;,\s] that
\* are digits only
load_admin_ids(raw) ==
    {SubSeq(raw, i, j) : <<i, j>> \in
        {<<i, j>> \in (1..Len(raw)) \X (1..Len(raw)) :
            /\ i <= j
            /\ \A k \in i..j : raw[k] \in DigitChars
            /\ (i = 1 \/ raw[i - 1] \in {";", ",", " "})
            /\ (j = Len(raw) \/ raw[j + 1] \in {";", ",", " "})}}

ADMIN_IDS == load_admin_ids(BOT_ADMIN_IDS_ENV)

\* \w of the regular expressions: letters, digits and the underscore
IsWordChar[c \in STRING] == IsLetter[c] \/ c \in DigitChars \/ c = "_"

\* The code points of the characters the texts are made of, in their order
CodeOrder == <<" ", ",", ".", "0", "1", "2", "3", "4", "5", "6", "7", "8", "9", ";">>
             \o UpperChars \o <<"_">> \o LowerChars

CharLess[c \in STRING, d \in STRING] ==
    \E i, j \in 1..Len(CodeOrder) : i < j /\ CodeOrder[i] = c /\ CodeOrder[j] = d

\* a < b as Python compares strings of digits and letters
StrLess[a \in Str, b \in Str] ==
    IF b = <<>> THEN FALSE
    ELSE IF a = <<>> THEN TRUE
    ELSE IF Head(a) # Head(b) THEN CharLess[Head(a), Head(b)]
    ELSE StrLess[Tail(a), Tail(b)]

\* sorted(S) for a set of strings
RECURSIVE Sorted(_)
SortedFrom(S, least) == <<least>> \o Sorted(S \ {least})

Sorted(S) ==
    IF S = {} THEN <<>>
    ELSE SortedFrom(S, CHOOSE x \in S : \A y \in S : x = y \/ StrLess[x, y])

\* the matches of \d{4,} in text, without the word boundaries
MatchesUnbounded(text) ==
    {SubSeq(text, p[1], p[2]) : p \in
        {p \in (1..Len(text)) \X (1..Len(text)) :
            /\ p[2] - p[1] + 1 >= 4
            /\ \A k \in p[1]..p[2] : text[k] \in DigitChars
            /\ (p[1] = 1 \/ text[p[1] - 1] \notin DigitChars)
            /\ (p[2] = Len(text) \/ text[p[2] + 1] \notin DigitChars)}}

\* the matches of \b\d{4,}\b in text
Matches(text) ==
    {SubSeq(text, i, j) : <<i, j>> \in
        {<<i, j>> \in (1..Len(text)) \X (1..Len(text)) :
            /\ j - i + 1 >= 4
            /\ \A k \in i..j : text[k] \in DigitChars
            /\ (i = 1 \/ ~IsWordChar[text[i - 1]])
            /\ (j = Len(text) \/ ~IsWordChar[text[j + 1]])}}

\* bot._extract_candidate_ids
extract_candidate_ids(text) == IF text = <<>> THEN <<>> ELSE Sorted(Matches(text))

\* bot._reply_with_user_id: the replies it sends
reply_with_user_id(update) ==
    IF ~update.user.present \/ ~update.has_message THEN <<>>
    ELSE <<[kind |-> "your_id", id |-> PyStr(update.user.id)]>>

\* bot._handle_admin_action on the allow-list file: the file as the loop leaves
\* it, the replies sent and the ids passed to add_user
RECURSIVE handle_admin_action(_, _, _)
AdminReply(candidate, added, rest) ==
    [file |-> rest.file,
     replies |-> <<[kind |-> IF added.raised THEN "not_added" ELSE "added",
                    id |-> candidate]>> \o rest.replies,
     passed |-> <<PyIntOfStr(candidate).val>> \o rest.passed]

AdminLoop(update, candidates, added) ==
    AdminReply(Head(candidates), added,
               handle_admin_action(update, added.file, Tail(candidates)))

handle_admin_action(update, file, candidates) ==
    IF ~update.has_message \/ candidates = <<>>
    THEN [file |-> file, replies |-> <<>>, passed |-> <<>>]
    ELSE AdminLoop(update, candidates,
                   add_user(file, PyIntOfStr(Head(candidates)).val, ""))

\* what handle_text does for an administrator
AdminText(r, update, first, done) ==
    /\ resp' = [r EXCEPT !.replies = first \o done.replies, !.passed = done.passed]
    /\ usersFile' = done.file

\* bot.handle_text
handle_text(update) ==
    /\ resp.op = "idle"
    /\ LET r == [NoResp EXCEPT !.op = "handle_text", !.update = update]
           candidates ==
               SelectSeq(extract_candidate_ids(IF update.has_message THEN update.text
                                               ELSE <<>>),
                         LAMBDA cid : cid # PyStr(update.user.id))
       IN IF ~update.user.present \/ PyStr(update.user.id) \notin ADMIN_IDS
          THEN /\ resp' = [r EXCEPT !.replies = reply_with_user_id(update)]
               /\ UNCHANGED usersFile
          ELSE IF candidates = <<>>
          THEN /\ resp' = [r EXCEPT !.replies = reply_with_user_id(update)]
               /\ UNCHANGED usersFile
          ELSE AdminText(r, update, reply_with_user_id(update),
                         handle_admin_action(update, usersFile, candidates))
    /\ UNCHANGED <<historyFile, materialsFile, session, clock, calcIn, calcOut, threads>>

\* bot.handle_start
handle_start(update) ==
    /\ resp.op = "idle"
    /\ resp' = [NoResp EXCEPT !.op = "handle_start", !.update = update,
                              !.replies = reply_with_user_id(update)]
    /\ UNCHANGED <<usersFile, historyFile, materialsFile, session, clock, calcIn, calcOut, threads>>

\* The response is sent and the server waits for the next request.
send_response ==
    /\ resp.op # "idle"
    /\ resp' = NoResp
    /\ UNCHANGED <<usersFile, historyFile, materialsFile, session, clock, calcIn, calcOut, threads>>

(***************************************************************************)
(* Concurrent calls of the file helpers. The web server answers requests   *)
(* in threads and the bot is a process of its own, and no helper takes a   *)
(* lock: a call reads its file (_load_json), computes the new content from *)
(* what it read, and writes it (_save_json), and the steps of two calls    *)
(* interleave. path.open("w") truncates the file and json.dump fills it,   *)
(* so that a reader in between finds a file that json.load rejects.        *)
(***************************************************************************)
\* Two threads, neither in a call. A thread holds its call, the file as the
\* call read it, and saw, the positions of the other threads when it read.
IdleThreads ==
    [t \in {"t1", "t2"} |->
        [pc |-> "idle", saw |-> {}, snapshot |-> AbsentFile,
         call |-> [fn |-> "none", path |-> "none", user_id |-> IntZero,
                   entry |-> [timestamp |-> 0], material |-> <<>>]]]

\* Thread t enters a call and reads the file of that call: users = get_users(),
\* history = _load_json(HISTORY_PATH, []), materials = load_materials().
\* add_user raises here when what it read holds the id.
Read(t, call) ==
    /\ threads[t].pc = "idle"
    /\ LET snapshot == [users |-> usersFile, history |-> historyFile,
                        materials |-> materialsFile][call.path]
       IN threads' =
            [threads EXCEPT ![t] =
                [pc |-> IF call.fn = "add_user" /\ add_user(snapshot, call.user_id, "").raised
                        THEN "raised" ELSE "loaded",
                 saw |-> {threads[o].pc : o \in DOMAIN threads \ {t}},
                 snapshot |-> snapshot,
                 call |-> call]]
    /\ UNCHANGED <<usersFile, historyFile, materialsFile, session, clock, resp, calcIn,
                   calcOut>>

\* _save_json run by thread t, in its two steps. The content is computed from the
\* file as the call read it. When another thread has written the file since this
\* one truncated it, the two serialisations lie over each other: the file holds
\* this content if it is the longer one and malformed JSON otherwise.
Write(t) ==
    LET call == threads[t].call
        file == [users |-> usersFile, history |-> historyFile,
                 materials |-> materialsFile][call.path]
        content ==
            CASE call.fn = "add_user" -> add_user(threads[t].snapshot, call.user_id, "").file
              [] call.fn = "delete_user" -> delete_user(threads[t].snapshot, call.user_id)
              [] call.fn = "append_history" -> append_history(threads[t].snapshot, call.entry)
              [] OTHER -> save_material(threads[t].snapshot, call.material,
                                        fallback_material(call.material))
    IN /\ threads[t].pc \in {"loaded", "opened"}
       /\ \E written \in IF threads[t].pc = "loaded" THEN {MalformedFile}
                         ELSE IF file.kind = "malformed" THEN {content}
                         ELSE {content, MalformedFile} :
          /\ threads' = [threads EXCEPT ![t].pc = IF threads[t].pc = "loaded" THEN "opened"
                                                   ELSE "returned"]
          /\ usersFile' = IF call.path = "users" THEN written ELSE usersFile
          /\ historyFile' = IF call.path = "history" THEN written ELSE historyFile
          /\ materialsFile' = IF call.path = "materials" THEN written ELSE materialsFile
          /\ UNCHANGED <<session, clock, resp, calcIn, calcOut>>

(***************************************************************************)
(* The web application: requests are drawn from bounded sets.              *)
(***************************************************************************)
ID_1111 == <<"1", "1", "1", "1">>
ID_2222 == <<"2", "2", "2", "2">>

UserIdValues ==
    {JMissing, JNull, JInt(<<"0">>), JInt(ID_2222), JStr(<<>>),
     JStr(<<"0", "2", "2", "2", "2">>), JStr(<<"a", "b">>)}

MaterialValues ==
    {JMissing, JStr(ALU), JStr(<<" ", "A", "L", "U", " ">>), JStr(TITAN)}

CalcBodies ==
    {[tool_type |-> <<"M", "i", "l", "l">>, tool_material |-> CARBIDE, diameter |-> 100,
      teeth |-> 4,
      material_properties |-> [machinability_index |-> m, temperature_risk |-> FMissing,
                               work_hardening |-> FMissing, notes |-> nt, name |-> ALU]]
     : m \in {FNum(100), FNull}, nt \in {"list", "null"}}
    \ {[tool_type |-> <<"M", "i", "l", "l">>, tool_material |-> CARBIDE, diameter |-> 100,
        teeth |-> 4,
        material_properties |-> [machinability_index |-> FNull, temperature_risk |-> FMissing,
                                 work_hardening |-> FMissing, notes |-> "null",
                                 name |-> ALU]]}

CalcPayloads ==
    {[user_id |-> u, absent |-> a, tool_type |-> b.tool_type,
      tool_material |-> b.tool_material, diameter |-> b.diameter, teeth |-> b.teeth,
      material_properties |-> b.material_properties]
     : u \in UserIdValues, a \in {{}, {"teeth"}, {"tool_type", "material_properties"}},
       b \in CalcBodies}

Passwords == {"admin123", "wrong", ""}
Names == {"", "Ann"}
Paths == {ID_2222, <<"0">>, <<"0", "2", "2", "2", "2">>, <<"x">>}

\* The data files as the application may find them when it starts: all absent
\* (a fresh install), all holding malformed JSON, all holding JSON of the wrong
\* type, all empty, or an allow-list of one user.
InitFiles ==
    {[users |-> AbsentFile, history |-> AbsentFile, materials |-> AbsentFile],
     [users |-> MalformedFile, history |-> MalformedFile, materials |-> MalformedFile],
     [users |-> DictFile(EmptyDict), history |-> ScalarFile, materials |-> ListFile(<<>>)],
     [users |-> ListFile(<<>>), history |-> ListFile(<<>>), materials |-> DictFile(EmptyDict)],
     [users |-> ListFile(<<[id |-> ID_2222, name |-> "Ann"]>>), history |-> ListFile(<<>>),
      materials |-> DictFile(EmptyDict)]}

Init ==
    /\ \E f \in InitFiles :
          /\ usersFile = f.users
          /\ historyFile = f.history
          /\ materialsFile = f.materials
    /\ session = [c \in Clients |-> FALSE]
    /\ clock = 1
    /\ resp = NoResp
    /\ calcIn = IdleCalcIn
    /\ calcOut = NotCalled
    /\ threads = IdleThreads

Next ==
    \/ \E uid \in UserIdValues : check_access(uid)
    \/ list_materials
    \/ \E uid \in UserIdValues, material \in MaterialValues : analyze_material(uid, material)
    \/ \E payload \in CalcPayloads : calc_modes(payload)
    \/ \E c \in Clients, password \in Passwords : admin_login(c, password)
    \/ \E c \in Clients : admin_logout(c)
    \/ \E c \in Clients : admin_users(c)
    \/ \E c \in Clients, uid \in UserIdValues, name \in Names : admin_add_user(c, uid, name)
    \/ \E c \in Clients, path \in Paths : admin_delete_user(c, path)
    \/ \E c \in Clients : admin_history(c)
    \/ send_response

Spec == Init /\ [][Next]_vars

(***************************************************************************)
(* The bot together with the administrator's add and delete endpoints.     *)
(***************************************************************************)
Senders ==
    {[present |-> TRUE, id |-> [neg |-> FALSE, mag |-> m]] : m \in {ID_1111, ID_2222, <<"3", "3", "3", "3">>}}
    \cup {[present |-> FALSE, id |-> IntZero]}

\* The words a message is made of
Words ==
    {ID_1111, ID_2222, <<"0", "2", "2", "2", "2">>, <<"2", "2", "2">>,
     <<"a", "2", "2", "2", "2">>, <<"5", "5", "5", "5", ",", "2", "2", "2", "2">>}

RECURSIVE Join(_)
Join(ws) ==
    IF ws = <<>> THEN <<>>
    ELSE IF Len(ws) = 1 THEN ws[1]
    ELSE ws[1] \o <<" ">> \o Join(Tail(ws))

Texts == {Join(ws) : ws \in UNION {[1..n -> Words] : n \in 0..MaxWords}}

Updates ==
    {[user |-> u, has_message |-> TRUE, text |-> t] : u \in Senders, t \in Texts}
    \cup {[user |-> u, has_message |-> FALSE, text |-> <<>>] : u \in Senders}

InitBot ==
    /\ usersFile \in {AbsentFile, MalformedFile, ListFile(<<>>),
                      ListFile(<<[id |-> ID_2222, name |-> "Ann"]>>)}
    /\ historyFile = AbsentFile
    /\ materialsFile = AbsentFile
    /\ session = [c \in Clients |-> FALSE]
    /\ clock = 1
    /\ resp = NoResp
    /\ calcIn = IdleCalcIn
    /\ calcOut = NotCalled
    /\ threads = IdleThreads

NextBot ==
    \/ \E update \in Updates : handle_text(update)
    \/ \E update \in Updates : handle_start(update)
    \/ \E c \in Clients, password \in Passwords : admin_login(c, password)
    \/ \E c \in Clients, uid \in {JNull, JInt(ID_2222), JStr(<<"0", "2", "2", "2", "2">>)},
          name \in Names : admin_add_user(c, uid, name)
    \/ \E c \in Clients, path \in Paths : admin_delete_user(c, path)
    \/ send_response

SpecBot == InitBot /\ [][NextBot]_vars

InitCalc ==
    /\ usersFile = AbsentFile
    /\ historyFile = AbsentFile
    /\ materialsFile = AbsentFile
    /\ session = [c \in Clients |-> FALSE]
    /\ clock = 1
    /\ resp = NoResp
    /\ calcIn \in CalcInputs
    /\ calcOut = NotCalled
    /\ threads = IdleThreads

SpecCalc == InitCalc /\ [][Calculate]_vars

\* Two concurrent calls of the writers, started from the files as the
\* application finds them: add_user of two new ids, delete_user of the listed
\* id, append_history of two entries, save_material of two names.
SpecRace ==
    Init /\ [][\/ \E t \in {"t1", "t2"} :
                    \E call \in
                       {[fn |-> "add_user", path |-> "users",
                         user_id |-> [neg |-> FALSE, mag |-> m],
                         entry |-> [timestamp |-> 0], material |-> <<>>]
                        : m \in {ID_1111, <<"3", "3", "3", "3">>}}
                       \cup {[fn |-> "delete_user", path |-> "users",
                              user_id |-> [neg |-> FALSE, mag |-> ID_2222],
                              entry |-> [timestamp |-> 0], material |-> <<>>]}
                       \cup {[fn |-> "append_history", path |-> "history",
                              user_id |-> IntZero, entry |-> [timestamp |-> k],
                              material |-> <<>>] : k \in 1..2}
                       \cup {[fn |-> "save_material", path |-> "materials",
                              user_id |-> IntZero, entry |-> [timestamp |-> 0],
                              material |-> n] : n \in {ALU, <<"T", "i", "t", "a", "n", " ">>}}
                     : Read(t, call)
               \/ \E t \in {"t1", "t2"} : Write(t)]_vars

\* The allow-list as the administration may find it: absent, empty, or edited
\* by hand so that an id stands twice.
InitDelete ==
    /\ usersFile \in {AbsentFile, ListFile(<<>>),
                      ListFile(<<[id |-> ID_2222, name |-> "Ann"], [id |-> ID_1111, name |-> "Bob"],
                                 [id |-> ID_2222, name |-> "Ann"],
                                 [id |-> <<"3", "3", "3", "3">>, name |-> "Eve"]>>)}
    /\ historyFile = ListFile(<<>>)
    /\ materialsFile = DictFile(EmptyDict)
    /\ session = [c \in Clients |-> FALSE]
    /\ clock = 1
    /\ resp = NoResp
    /\ calcIn = IdleCalcIn
    /\ calcOut = NotCalled
    /\ threads = IdleThreads

\* The administration of the allow-list beside the gated endpoints.
SpecDelete ==
    InitDelete
    /\ [][\/ \E c \in Clients, password \in Passwords : admin_login(c, password)
          \/ \E c \in Clients, uid \in UserIdValues, name \in Names :
                admin_add_user(c, uid, name)
          \/ \E c \in Clients, path \in Paths \cup {ID_1111} : admin_delete_user(c, path)
          \/ \E uid \in UserIdValues : check_access(uid)
          \/ \E uid \in UserIdValues, material \in {JMissing, JStr(ALU)} :
                analyze_material(uid, material)
          \/ \E payload \in {p \in CalcPayloads :
                               p.material_properties.machinability_index = FNum(100)} :
                calc_modes(payload)
          \/ send_response]_vars

(***************************************************************************)
(* The properties.                                                         *)
(***************************************************************************)
\* The ids of the stored allow-list, in its order
UserIds(file) == [k \in 1..Len(get_users(file)) |-> get_users(file)[k].id]

NoDuplicateIds(file) ==
    \A i, j \in 1..Len(UserIds(file)) : i # j => UserIds(file)[i] # UserIds(file)[j]

IdSet(file) == {UserIds(file)[k] : k \in 1..Len(UserIds(file))}

\* An add through the endpoint for an id the list holds is answered 400 with the
\* 'user already exists' error and leaves the file as it was; the bot answers each
\* id it passes to add_user "not added" exactly when the list holds it by then.
DuplicateAddRejected ==
    /\ (resp'.op = "admin_add_user" /\ session[resp'.client] /\ resp'.listed)
         => /\ resp'.status = 400
            /\ resp'.err = USER_EXISTS
            /\ usersFile' = usersFile
    /\ resp'.op = "handle_text"
         => \A k \in 1..Len(resp'.passed) :
               (resp'.replies[k + 1].kind = "not_added")
                  <=> (PyStr(resp'.passed[k])
                          \in IdSet(usersFile) \cup {PyStr(resp'.passed[m]) : m \in 1..(k - 1)})
    /\ (resp'.op = "handle_text" /\ \A k \in 1..Len(resp'.passed) :
                                       PyStr(resp'.passed[k]) \in IdSet(usersFile))
         => usersFile' = usersFile

\* C1: starting from an allow-list of pairwise distinct ids, after any sequence
\* of adds and deletes by the admin endpoints or the bot no two entries of the
\* stored list have the same id, and an add for an id already present gets the
\* 'user already exists' error (400 from the endpoint) and leaves the list unchanged.
C1_UniqueIds == [](NoDuplicateIds(usersFile)) /\ [][DuplicateAddRejected]_vars

\* C1 reached: the endpoint has refused an id that a list of two users holds
C1_Witness ==
    /\ resp.op = "admin_add_user"
    /\ resp.listed
    /\ resp.status = 400
    /\ resp.err = USER_EXISTS
    /\ Len(get_users(usersFile)) >= 2

IsAdmin(u) == u.user.present /\ PyStr(u.user.id) \in ADMIN_IDS

\* c ends a run of digits: any character that is no digit, or, for runs that
\* are whole words, any character that is neither a letter, a digit nor "_"
Delimiter(c, whole_words) ==
    IF whole_words THEN ~(IsLetter[c] \/ c \in DigitChars \/ c = "_")
    ELSE c \notin DigitChars

\* The runs of four or more digits of text whose neighbours on both sides are
\* the ends of the text or delimiters
DigitRuns(text, whole_words) ==
    {SubSeq(text, p[1], p[2]) : p \in
        {p \in (1..Len(text)) \X (1..Len(text)) :
            /\ p[2] >= p[1] + 3
            /\ \A k \in p[1]..p[2] : text[k] \in DigitChars
            /\ (p[1] = 1 \/ Delimiter(text[p[1] - 1], whole_words))
            /\ (p[2] = Len(text) \/ Delimiter(text[p[2] + 1], whole_words))}}

\* every maximal run of four or more digits
AllDigitRuns(u) == DigitRuns(u.text, FALSE)

\* the runs that are whole words, the sender's own id left out
WordRunsOfOthers(u) == DigitRuns(u.text, TRUE) \ {PyStr(u.user.id)}

\* What one handle_text step does, expected being the candidates of its update
BotStep(expected) ==
    resp'.op = "handle_text" =>
      LET u == resp'.update
          replies == resp'.replies
      IN /\ (u.user.present /\ u.has_message)
              => /\ Len(replies) >= 1
                 /\ replies[1] = [kind |-> "your_id", id |-> PyStr(u.user.id)]
         /\ ~(u.user.present /\ u.has_message)
              => /\ replies = <<>>
                 /\ usersFile' = usersFile
         /\ IF IsAdmin(u) /\ u.has_message
            THEN /\ Len(replies) = 1 + Cardinality(expected)
                 /\ {replies[k].id : k \in 2..Len(replies)} = expected
                 /\ Len(resp'.passed) = Len(replies) - 1
                 /\ \A k \in 2..Len(replies) :
                       /\ replies[k].kind \in {"added", "not_added"}
                       /\ resp'.passed[k - 1] = PyIntOfStr(replies[k].id).val
                       /\ PyStr(resp'.passed[k - 1]) \in IdSet(usersFile')
            ELSE /\ resp'.passed = <<>>
                 /\ usersFile' = usersFile
                 /\ Len(replies) <= 1

\* C10, as the code has it: on a message with a sender the bot first replies
\* with the sender's id; if and only if the sender is an administrator, every
\* distinct whole-word run of four or more digits other than the sender's own
\* id is passed to add_user, one reply each; any other message leaves the
\* allow-list as it was.
C10_BotAddsOthers == [][BotStep(WordRunsOfOthers(resp'.update))]_vars

\* C10 as stated: every distinct run of four or more digits is passed to add_user
C10_AsStated == [][BotStep(AllDigitRuns(resp'.update))]_vars

\* C10 reached: an administrator's message held the administrator's own id, an
\* id the list had and a new one
C10_Witness ==
    /\ resp.op = "handle_text"
    /\ IsAdmin(resp.update)
    /\ PyStr(resp.update.user.id) \in AllDigitRuns(resp.update)
    /\ \E k \in 2..Len(resp.replies) : resp.replies[k].kind = "added"
    /\ \E k \in 2..Len(resp.replies) : resp.replies[k].kind = "not_added"

GatedOps == {"check_access", "analyze_material", "calc_modes"}

\* user_id is a present, non-empty numeric value
NumericUserId(uid) ==
    \/ uid.t = "int"
    \/ uid.t = "str" /\ uid.s # <<>> /\ PyIntOfStr(uid.s).ok

\* The request passes the field validation of its endpoint, which precedes the
\* access check, and its user_id converts to an int
ReachesAccessCheck(r) ==
    /\ PyInt(JGet(r.uid)).ok
    /\ CASE r.op = "check_access" -> Truthy(JGet(r.uid))
         [] r.op = "analyze_material" -> Truthy(JGet(r.uid)) /\ Truthy(JGet(r.material))
         [] r.op = "calc_modes" -> r.uid.t # "missing" /\ r.absent = {}
         [] OTHER -> FALSE

\* What a request of a user the allow-list does not hold gets, gets403 saying
\* whether it is to be answered 403
UnlistedStep(gets403) ==
    (resp'.op \in GatedOps /\ ~resp'.listed)
      => /\ resp'.status # 200
         /\ gets403 => resp'.status = 403
         /\ ~resp'.analysed_material
         /\ ~resp'.asked_gpt
         /\ ~resp'.calculated
         /\ materialsFile' = materialsFile
         /\ historyFile' = historyFile

\* C2, as the code has it: a request to a gated endpoint whose user_id the
\* allow-list does not hold never succeeds and causes no analysis, no calculation,
\* no cache write and no history entry; it gets 403 when it passes the endpoint's
\* field validation and its user_id converts to an int.
C2_UnlistedRejected == [][UnlistedStep(ReachesAccessCheck(resp'))]_vars

\* C2 as stated: 403 whenever the user_id is a present non-empty numeric value
C2_AsStated == [][UnlistedStep(NumericUserId(resp'.uid))]_vars

\* C2 reached: a complete calculation request of an unlisted user got 403 while
\* the allow-list held somebody else
C2_Witness ==
    /\ resp.op = "calc_modes"
    /\ ~resp.listed
    /\ resp.status = 403
    /\ Len(get_users(usersFile)) >= 1

\* The required fields that the JSON object of the request does not hold
MissingFields(r) ==
    (IF r.uid.t = "missing" THEN {"user_id"} ELSE {})
    \cup (IF r.op = "analyze_material" /\ r.material.t = "missing" THEN {"material"} ELSE {})
    \cup (IF r.op = "calc_modes" THEN r.absent ELSE {})

\* The field names among the words of the message
NamedFields(r) == {r.message[k] : k \in 1..Len(r.message)}

\* What a request that lacks a required field gets, names saying whether the
\* message is to name the missing fields
MissingStep(names) ==
    (resp'.op \in GatedOps /\ MissingFields(resp') # {})
      => /\ resp'.status = 400
         /\ resp'.message # <<>>
         /\ names => MissingFields(resp') \subseteq NamedFields(resp')
         /\ UNCHANGED <<usersFile, historyFile, materialsFile>>

\* The message of POST /api/calc lists exactly the missing fields, in the order
\* of the required fields; that of POST /api/materials/analyze is a fixed text
\* that names no field
MessageTexts ==
    /\ (resp'.op = "calc_modes" /\ MissingFields(resp') # {})
         => resp'.message
              = <<"Otsutstvuyut", "polya">>
                \o SelectSeq(<<"user_id", "tool_type", "tool_material", "diameter", "teeth",
                               "material_properties">>,
                             LAMBDA f : f \in MissingFields(resp'))
    /\ (resp'.op = "analyze_material" /\ MissingFields(resp') # {})
         => /\ resp'.message = <<"Nedostatochno", "dannyh">>
            /\ NamedFields(resp') \cap {"user_id", "material"} = {}

\* C11, as the code has it: a request to one of the three endpoints whose JSON
\* object lacks a required field gets 400 and changes no stored data; the
\* message names the missing fields for /api/check_access and /api/calc, and is
\* a fixed text without field names for /api/materials/analyze.
C11_MissingFields ==
    [][MissingStep(resp'.op # "analyze_material") /\ MessageTexts]_vars

\* C11 as stated: the message of every such 400 names the missing fields
C11_AsStated == [][MissingStep(TRUE)]_vars

\* C11 reached: a calculation request without user_id, tool_type and
\* material_properties was refused while the allow-list held a user
C11_Witness ==
    /\ resp.op = "calc_modes"
    /\ resp.status = 400
    /\ MissingFields(resp) = {"user_id", "tool_type", "material_properties"}
    /\ Len(get_users(usersFile)) >= 1

\* Both calls have returned without raising
BothReturned == \A t \in DOMAIN threads : threads[t].pc = "returned"

\* The stored files hold the update of the call: the added id or entry or key
\* is there, the deleted id is not
Holds(call) ==
    CASE call.fn = "add_user" -> PyStr(call.user_id) \in IdSet(usersFile)
      [] call.fn = "delete_user" -> PyStr(call.user_id) \notin IdSet(usersFile)
      [] call.fn = "append_history"
           -> \E k \in 1..Len(get_history(historyFile)) :
                 get_history(historyFile)[k] = call.entry
      [] OTHER -> PyLower[PyStrip[call.material]] \in DOMAIN load_materials(materialsFile)

\* What a call changes: an id of the allow-list, an entry of the history, a
\* key of the cache
TargetOf(call) ==
    CASE call.path = "users" -> PyStr(call.user_id)
      [] call.path = "history" -> call.entry
      [] OTHER -> PyLower[PyStrip[call.material]]

\* The two calls write the same file for different targets, and a delete_user
\* read a list that holds its id
Conflicting ==
    /\ threads["t1"].call.path = threads["t2"].call.path
    /\ TargetOf(threads["t1"].call) # TargetOf(threads["t2"].call)
    /\ \A t \in DOMAIN threads :
          threads[t].call.fn = "delete_user"
            => PyStr(threads[t].call.user_id) \in IdSet(threads[t].snapshot)

\* No call read while another was between its read and its return
OneAfterTheOther ==
    \A t \in DOMAIN threads : threads[t].saw \subseteq {"idle", "returned", "raised"}

\* Both calls read before either began to write
BothReadFirst == \E t \in DOMAIN threads : threads[t].saw = {"loaded"}

\* C12: two calls that run one after the other leave both updates in the
\* files; two calls on the same file that both read before either writes both
\* return and yet leave a file that lacks the update of one of them (the last
\* writer's content, computed from what it read, replaces the other's).
C12_LostUpdate ==
    BothReturned
      => /\ OneAfterTheOther => \A t \in DOMAIN threads : Holds(threads[t].call)
         /\ (Conflicting /\ BothReadFirst)
              => \E t \in DOMAIN threads : ~Holds(threads[t].call)

\* C12 reached: two add_user calls for distinct ids both read the allow-list
\* before either wrote, both have returned, and the list, which still holds its
\* earlier user, holds one of the two ids only
C12_Witness ==
    /\ BothReturned
    /\ BothReadFirst
    /\ \A t \in DOMAIN threads : threads[t].call.fn = "add_user"
    /\ threads["t1"].call.user_id # threads["t2"].call.user_id
    /\ ID_2222 \in IdSet(usersFile)
    /\ Cardinality(IdSet(usersFile)) = 2

\* two append_history calls have both returned and the history holds one entry
C12_HistoryLost ==
    /\ BothReturned
    /\ \A t \in DOMAIN threads : threads[t].call.fn = "append_history"
    /\ threads["t1"].call.entry # threads["t2"].call.entry
    /\ Len(get_history(historyFile)) = 1

\* two save_material calls for names of different keys have both returned and
\* the cache holds one key
C12_MaterialLost ==
    /\ BothReturned
    /\ \A t \in DOMAIN threads : threads[t].call.fn = "save_material"
    /\ TargetOf(threads["t1"].call) # TargetOf(threads["t2"].call)
    /\ Cardinality(DOMAIN load_materials(materialsFile)) = 1

\* a delete_user that removed an id and an add_user of another id have both
\* returned and the allow-list holds the deleted id again
C12_DeleteUndone ==
    /\ BothReturned
    /\ threads["t1"].call.fn = "delete_user"
    /\ threads["t2"].call.fn = "add_user"
    /\ PyStr(threads["t1"].call.user_id) \in IdSet(threads["t1"].snapshot)
    /\ IdSet(usersFile) = {PyStr(threads["t1"].call.user_id), PyStr(threads["t2"].call.user_id)}

\* What DELETE /api/admin/users/<user_id> does in a session with the flag, for a
\* path that int() accepts: every entry of that id goes, the others stay as they
\* are and in their order, the answer is success whether or not the id was there
DeleteStep ==
    (/\ resp'.op = "admin_delete_user"
     /\ session[resp'.client]
     /\ PyIntOfStr(resp'.path).ok)
      => LET id == PyStr(PyIntOfStr(resp'.path).val)
             kept == {k \in 1..Len(get_users(usersFile)) : get_users(usersFile)[k].id # id}
         IN /\ resp'.status = 200
            /\ usersFile'.kind = "list"
            /\ Len(get_users(usersFile')) = Cardinality(kept)
            /\ \A k \in kept :
                  get_users(usersFile')[Cardinality({j \in kept : j <= k})]
                     = get_users(usersFile)[k]
            /\ id \notin IdSet(usersFile')
            /\ ~is_user_authorised(usersFile', PyIntOfStr(resp'.path).val)
            /\ id \notin IdSet(usersFile) => get_users(usersFile') = get_users(usersFile)

\* An id that the allow-list does not hold enters it only by an add_user of
\* that id, through the endpoint or the bot
OnlyAddAuthorises ==
    \A id \in IdSet(usersFile') \ IdSet(usersFile) :
        \/ /\ resp'.op = "admin_add_user"
           /\ resp'.status = 200
           /\ resp'.entry.id = id
        \/ /\ resp'.op = "handle_text"
           /\ \E k \in 1..Len(resp'.passed) : PyStr(resp'.passed[k]) = id

\* A gated endpoint rejects a user_id that converts to an id the allow-list
\* does not hold: 400 or 403
AbsentIdRejected ==
    (/\ resp'.op \in GatedOps
     /\ PyInt(JGet(resp'.uid)).ok
     /\ PyStr(PyInt(JGet(resp'.uid)).val) \notin IdSet(usersFile))
      => resp'.status \in {400, 403}

\* C13: a delete_user(id) that runs on its own removes every entry whose id
\* equals str(id) and nothing else, the remaining entries keeping their content
\* and order; is_user_authorised(id) is then false until a later add_user(id),
\* and every gated endpoint rejects the id meanwhile; deleting an id that is
\* not in the list leaves the list as it was and still reports success.
C13_DeleteRemoves == [][DeleteStep /\ OnlyAddAuthorises /\ AbsentIdRejected]_vars

\* C13 reached: a delete through a path with a leading zero has removed both
\* entries of an id and left the two other users in their order
C13_Witness ==
    /\ resp.op = "admin_delete_user"
    /\ resp.status = 200
    /\ resp.listed
    /\ resp.path = <<"0", "2", "2", "2", "2">>
    /\ get_users(usersFile) = <<[id |-> ID_1111, name |-> "Bob"],
                                [id |-> <<"3", "3", "3", "3">>, name |-> "Eve"]>>

\* The cache key of a material name
KeyOf(material) == PyLower[PyStrip[material.s]]

CacheStep ==
    /\ \A k \in DOMAIN load_materials(materialsFile) :
          /\ k \in DOMAIN load_materials(materialsFile')
          /\ load_materials(materialsFile')[k] = load_materials(materialsFile)[k]
    /\ ~resp'.asked_gpt => materialsFile' = materialsFile
    /\ (resp'.op = "analyze_material" /\ resp'.analysed_material)
         => /\ resp'.asked_gpt
                <=> KeyOf(resp'.material) \notin DOMAIN load_materials(materialsFile)
            /\ (resp'.asked_gpt /\ resp'.status = 200)
                 => /\ KeyOf(resp'.material) \in DOMAIN load_materials(materialsFile')
                    /\ load_materials(materialsFile')[KeyOf(resp'.material)] = resp'.props
            /\ ~resp'.asked_gpt
                 => /\ resp'.status = 200
                    /\ resp'.props = load_materials(materialsFile)[KeyOf(resp'.material)]

\* C3: the external analysis is invoked only when the trimmed, lower-cased name
\* is no key of the cache; what it returns is stored under that key, so that a
\* later call for a name of the same key returns the stored record without
\* invoking it; no key is ever removed or changed.
C3_CacheOnMiss == [][CacheStep]_vars

\* C3 reached: a name that is not its own key was answered from the cache
C3_Witness ==
    /\ resp.op = "analyze_material"
    /\ resp.analysed_material
    /\ ~resp.asked_gpt
    /\ resp.status = 200
    /\ resp.material.s # KeyOf(resp.material)

HistoryStep ==
    /\ Len(get_history(historyFile')) >= Len(get_history(historyFile))
    /\ SubSeq(get_history(historyFile'), 1, Len(get_history(historyFile)))
          = get_history(historyFile)
    /\ Len(get_history(historyFile'))
          = Len(get_history(historyFile))
            + (IF resp'.op = "calc_modes" /\ resp'.status = 200 THEN 1 ELSE 0)

\* C4: the stored history has every earlier stored history as a prefix, and it
\* grows by exactly one entry with each POST /api/calc that returns success and
\* by none with any other request.
C4_HistoryAppendOnly == [][HistoryStep]_vars

\* C4 reached: a successful calculation has appended a second entry
C4_Witness ==
    /\ resp.op = "calc_modes"
    /\ resp.status = 200
    /\ Len(get_history(historyFile)) = 2

AdminDataOps == {"admin_users", "admin_add_user", "admin_delete_user", "admin_history"}

SessionStep ==
    /\ (resp'.op \in AdminDataOps /\ ~session[resp'.client])
         => /\ resp'.status = 401
            /\ resp'.users = <<>>
            /\ resp'.history = <<>>
            /\ UNCHANGED <<usersFile, historyFile, materialsFile>>
    /\ (resp'.op \in AdminDataOps /\ session[resp'.client]) => resp'.status # 401
    /\ resp'.op = "admin_login"
         => IF resp'.password = DEFAULT_ADMIN_PASSWORD
            THEN resp'.status = 200 /\ session'[resp'.client]
            ELSE resp'.status = 403 /\ session' = session
    /\ resp'.op = "admin_logout" => ~session'[resp'.client]
    /\ \A c \in Clients :
          /\ (~session[c] /\ session'[c])
               => /\ resp'.op = "admin_login"
                  /\ resp'.client = c
                  /\ resp'.password = DEFAULT_ADMIN_PASSWORD
          /\ (session[c] /\ ~session'[c]) => resp'.op = "admin_logout" /\ resp'.client = c

\* C5: an admin data endpoint returns 401 and neither returns nor changes stored
\* data unless the session's admin flag is set; only a login with the configured
\* password sets the flag (a wrong password gets 403 and leaves the flag), and a
\* logout clears it until the next successful login.
C5_AdminSession == [][SessionStep]_vars

\* C5 reached: the user list was refused to a session without the flag while
\* the allow-list held a user
C5_Witness ==
    /\ resp.op = "admin_users"
    /\ resp.status = 401
    /\ ~session[resp.client]
    /\ Len(get_users(usersFile)) >= 1

\* C6: when a data file is absent, holds malformed JSON or a value of the wrong
\* type, get_users and get_history return the empty list and load_materials the
\* empty map, and the request that reads the file succeeds with the empty result.
C6_EmptyDefaults ==
    /\ usersFile.kind # "list" => get_users(usersFile) = <<>>
    /\ historyFile.kind # "list" => get_history(historyFile) = <<>>
    /\ materialsFile.kind # "dict" => load_materials(materialsFile) = EmptyDict
    /\ (resp.op = "admin_users" /\ resp.status # 401 /\ usersFile.kind # "list")
         => resp.status = 200 /\ resp.users = <<>>
    /\ (resp.op = "admin_history" /\ resp.status # 401 /\ historyFile.kind # "list")
         => resp.status = 200 /\ resp.history = <<>>
    /\ (resp.op = "list_materials" /\ materialsFile.kind # "dict")
         => resp.status = 200 /\ resp.materials = {}

\* C6 reached: the user list was served from a file of malformed JSON
C6_Witness ==
    /\ resp.op = "admin_users"
    /\ resp.status = 200
    /\ usersFile.kind = "malformed"

\* C7 as stated: calculate_cutting_modes raises no error, whatever its arguments
C7_AsStated == calcOut.called => ~calcOut.lo.raised /\ ~calcOut.hi.raised

\* C8: the spindle speed n that calculate_cutting_modes returns is never below
\* 1.0, whatever the diameter and the cutting speed.
C8_SpindleFloor ==
    (calcOut.called /\ ~calcOut.lo.raised /\ ~calcOut.hi.raised)
      => calcOut.lo.out.n >= 1 /\ calcOut.hi.out.n >= 1

\* C8 reached: a diameter of 10 m brought n to its floor
C8_Witness ==
    /\ calcOut.called
    /\ ~calcOut.lo.raised
    /\ calcIn.diameter = 100 * 1000
    /\ calcOut.lo.out.n = 1
    /\ calcOut.hi.out.n = 1

\* The arguments of the documented example: a carbide mill, machinability 1.0,
\* neutral temperature risk and work hardening, diameter 10 mm
IsDocumentedExample(in) ==
    /\ PyLower[in.tool_type] = MILL
    /\ PyLower[in.tool_material] = CARBIDE
    /\ in.props.machinability_index = FNum(100)
    /\ in.props.temperature_risk = FMissing
    /\ in.props.work_hardening \in {FMissing, FNull}
    /\ in.diameter = 100

\* vc 182.0, n 5793, fz 0.174, ap 2.0, ae 6.0 and the feed of t teeth, which is
\* 0.174 * t * 5793.2399 = t * 1008.0237 to one decimal
DocumentedModes(t) ==
    [vc |-> 182 * 100, n |-> 5793, fz |-> 1740, feed |-> (t * 1008024 + 50) \div 100,
     ap |-> 200, ae |-> 600]

\* C9: for the documented example and t teeth (4 when t <= 0) the function
\* returns vc 182.0, n 5793, fz 0.174, feed fz*t*n from the unrounded fz and n
\* (4032.1 for t = 4), ap 2.0 and ae 6.0.
C9_DocumentedExample ==
    (calcOut.called /\ IsDocumentedExample(calcIn))
      => /\ ~calcOut.lo.raised /\ ~calcOut.hi.raised
         /\ calcOut.lo.out = DocumentedModes(IF calcIn.teeth > 0 THEN calcIn.teeth ELSE 4)
         /\ calcOut.hi.out = DocumentedModes(IF calcIn.teeth > 0 THEN calcIn.teeth ELSE 4)

\* C9 reached: the example was calculated with a tooth count of zero
C9_Witness ==
    /\ calcOut.called
    /\ IsDocumentedExample(calcIn)
    /\ calcIn.teeth = 0
    /\ calcOut.lo.out.feed = 40321

====
